---- MODULE Spec2Model ----
(***************************************************************************)
(* Currency conversion and rate caching of MoMoneyTracker (lib/currency.ts *)
(* and the exchange_rates table).  Time is in milliseconds, as Date.now(). *)
(* Rates and amounts are integers (a rate of 0 stands for every falsy      *)
(* value: 0, undefined, NaN).                                              *)
(***************************************************************************)
EXTENDS Integers, Sequences, FiniteSets, TLC

\* ------------------------------------------------------------ constants
CACHE_EXPIRATION == 6 * 60 * 60 * 1000
MAX_CALLS_PER_MINUTE == 30
ONE_MINUTE == 60 * 1000
\* Date.prototype.toISOString is UTC: one calendar day is 86,400,000 ms.
MS_PER_DAY == 86400000
Currency == {"USD", "SAR", "EGP"}
\* amounts are doubles: the integers stand for the finite ones, and three
\* values beyond every finite amount for Infinity, -Infinity and NaN
Infinity == 2000000000
NegInfinity == 0 - Infinity
NaN == Infinity + 1

\* ------------------------------------------------------------ bounds
\* invocations per behaviour
MaxCalls == 3
\* clock advances per behaviour
MaxTicks == 1
\* invocations and clock advances per behaviour of the limiter specification
MaxLimiterCalls == 32
MaxLimiterTicks == 1
\* invocations and clock advances per behaviour of the failure specification
MaxFailureCalls == 32
MaxFailureTicks == 1
\* invocations and clock advances per behaviour of the fair specification
MaxFairCalls == 2
MaxFairTicks == 1
\* invocations and clock advances per behaviour of the day specification
MaxDayCalls == 2
MaxDayTicks == 1
\* invocations and clock advances per behaviour of the foreign specification
MaxForeignCalls == 3
MaxForeignTicks == 1
\* invocations per behaviour of the race specification
MaxRaceCalls == 3
\* invocations and clock advances per behaviour of the screens specification
MaxScreenCalls == 3
MaxScreenTicks == 1
\* invocations and clock advances per behaviour of the ceiling specification
MaxCeilingCalls == 32
MaxCeilingTicks == 1
\* invocations and clock advances per behaviour of the session specification
MaxSessionCalls == 3
MaxSessionTicks == 1

\* two callers that may await convertAmount at the same time
Tasks == {"A", "B"}

\* ------------------------------------------------------------ inputs
\* clock advances: the ages around the 6 hour expiry
TickSteps == {CACHE_EXPIRATION - 1, CACHE_EXPIRATION}
\* clock advances of the limiter specification: around the one minute window
LimiterTickSteps == {ONE_MINUTE, ONE_MINUTE + 1000}
\* <<amount, fromCurrency, toCurrency, date>>; the date is a Date in ms
Requests ==
  { <<200, "USD", "SAR", 3600000>>,
    <<200, "USD", "USD", 0>> }
LimiterRequests == { <<200, "USD", "SAR", 0>> }
\* what the provider answers: result, and conversion_rates[toCurrency]
\* (rate 0: the target is missing); "throw": fetch or response.json() throws
ProviderResponses ==
  { [result |-> "throw", rate |-> 0],
    [result |-> "error", rate |-> 0],
    [result |-> "success", rate |-> 0],
    [result |-> "success", rate |-> 3],
    [result |-> "success", rate |-> 4] }
LimiterProviderResponses ==
  { [result |-> "error", rate |-> 0], [result |-> "success", rate |-> 3] }
\* clock advances of the ceiling specification: just past the window
CeilingTickSteps == {ONE_MINUTE + 1}
CeilingProviderResponses == { [result |-> "error", rate |-> 0] }
\* clock advances of the failure specification: a record grows stale
FailureTickSteps == {CACHE_EXPIRATION}
FailureProviderResponses ==
  { [result |-> "throw", rate |-> 0],
    [result |-> "error", rate |-> 0],
    [result |-> "success", rate |-> 0],
    [result |-> "success", rate |-> 3] }
\* requests of the session specification: two days and both directions of a
\* pair, codes outside the Currency type, amounts that are not finite
SessionRequests ==
  { <<200, "USD", "SAR", 0>>,
    <<200, "USD", "SAR", MS_PER_DAY>>,
    <<200, "SAR", "USD", 0>>,
    <<200, "EUR", "EUR", 0>>,
    <<200, "EUR", "SAR", 0>>,
    <<NaN, "USD", "USD", 0>>,
    <<Infinity, "USD", "SAR", 0>>,
    <<NegInfinity, "USD", "SAR", 0>> }
SessionProviderResponses ==
  { [result |-> "error", rate |-> 0],
    [result |-> "success", rate |-> 3],
    [result |-> "success", rate |-> 4] }
\* requests of the day specification: the first and the last millisecond of
\* one UTC day, and the first of the next
DayRequests ==
  { <<200, "USD", "SAR", 0>>,
    <<200, "USD", "SAR", MS_PER_DAY - 1>>,
    <<200, "USD", "SAR", MS_PER_DAY>> }
\* answers of the foreign specification: the rate is a JSON number
ForeignProviderResponses ==
  { [result |-> "success", rate |-> 0 - 3],
    [result |-> "success", rate |-> 3] }
\* rates of rows another writer of the table puts there: rate is decimal
\* NOT NULL, with no CHECK on its sign
ForeignRates == {0 - 3, 0}
\* no answer of the provider yet
NoData == [result |-> "none", rate |-> 0]
\* no answer of the store lookup yet
NoAnswer == [error |-> FALSE, rate |-> 0, updated_at |-> 0]

\* ------------------------------------------------------------ state
VARIABLES
  clock,               \* Date.now()
  exchangeRatesCache,  \* <<dateStr, from, to>> -> [rate, timestamp]
  API_CALLS,           \* sequence of timestamps
  store,               \* rows of table exchange_rates
  calls,               \* per task: the convertAmount invocation it runs
  nCalls,              \* invocations started so far
  nTicks,              \* clock advances so far
  caller,              \* history: the task of the latest invocation
  attempts,            \* history: the admission checks, [at, now, admitted]
  screen               \* what the screen that loaded last shows

vars ==
  <<clock, exchangeRatesCache, API_CALLS, store, calls, nCalls, nTicks, caller, attempts,
    screen>>

\* ------------------------------------------------------------ results
NoResult == [kind |-> "none", val |-> 0, err |-> ""]
Value(v) == [kind |-> "value", val |-> v, err |-> ""]
Failure(m) == [kind |-> "error", val |-> 0, err |-> m]

RateLimitError == "Rate limit exceeded. Please try again later."
ApiError == "API Error"
NoRateError == "No conversion rate found"
FetchError == "fetch failed"
ConvertError == "Failed to convert amount"

\* ------------------------------------------------------------ pure parts
DateStrExact(date) == date
\* date.toISOString().split('T')[0]: the UTC calendar day
DateStr(date) == date \div MS_PER_DAY

CacheKeyNoDate(fromCurrency, toCurrency, date) == <<0, fromCurrency, toCurrency>>
CacheKey(fromCurrency, toCurrency, date) == <<DateStr(date), fromCurrency, toCurrency>>

IsIdentityNever(fromCurrency, toCurrency) == FALSE
\* line 74
IsIdentity(fromCurrency, toCurrency) == fromCurrency = toCurrency

CacheFreshInclusive(cache, key, now) ==
  /\ key \in DOMAIN cache
  /\ cache[key].rate # 0
  /\ now - cache[key].timestamp <= CACHE_EXPIRATION
\* lines 80-84: an entry with a truthy rate, younger than the expiration
CacheFresh(cache, key, now) ==
  /\ key \in DOMAIN cache
  /\ cache[key].rate # 0
  /\ now - cache[key].timestamp < CACHE_EXPIRATION

CachePutEvictsExpired(cache, key, rate, now) ==
  [k \in {x \in DOMAIN cache : now - cache[x].timestamp < CACHE_EXPIRATION} \cup {key} |->
     IF k = key THEN [rate |-> rate, timestamp |-> now] ELSE cache[k]]
CachePutKeepsOld(cache, key, rate, now) ==
  IF key \in DOMAIN cache THEN cache
  ELSE [k \in DOMAIN cache \cup {key} |->
          IF k = key THEN [rate |-> rate, timestamp |-> now] ELSE cache[k]]
\* lines 102-113 and 160-171
CachePut(cache, key, rate, now) ==
  [k \in DOMAIN cache \cup {key} |->
     IF k = key THEN [rate |-> rate, timestamp |-> now] ELSE cache[k]]

\* rows of the table matching the three .eq() filters
Matching(rows, key) ==
  { r \in rows : r.date = key[1] /\ r.from_currency = key[2] /\ r.to_currency = key[3] }

\* .single(): the row when exactly one matches, an error otherwise
Single(rows, key, fails) ==
  IF fails \/ Cardinality(Matching(rows, key)) # 1
  THEN [error |-> TRUE, rate |-> 0, updated_at |-> 0]
  ELSE LET r == CHOOSE x \in Matching(rows, key) : TRUE
       IN [error |-> FALSE, rate |-> r.rate, updated_at |-> r.updated_at]

StoreFreshIgnoresError(dbRate, now) ==
  now - dbRate.updated_at < CACHE_EXPIRATION
StoreFreshInverted(dbRate, now) ==
  /\ ~dbRate.error
  /\ now - dbRate.updated_at > CACHE_EXPIRATION
\* lines 98-100
StoreFresh(dbRate, now) ==
  /\ ~dbRate.error
  /\ now - dbRate.updated_at < CACHE_EXPIRATION

UpsertAlwaysInserts(rows, key, rate, updatedAt, serverNow) ==
  rows \cup {[from_currency |-> key[2], to_currency |-> key[3], date |-> key[1],
              rate |-> rate, updated_at |-> updatedAt]}
UpsertKeepsFirst(rows, key, rate, updatedAt, serverNow) ==
  IF Matching(rows, key) # {} THEN rows
  ELSE rows \cup {[from_currency |-> key[2], to_currency |-> key[3], date |-> key[1],
                   rate |-> rate, updated_at |-> updatedAt]}
\* lines 142-153 with the unique constraint and the BEFORE UPDATE trigger:
\* insert, or on conflict update the row (the trigger stamps updated_at)
Upsert(rows, key, rate, updatedAt, serverNow) ==
  IF Matching(rows, key) = {}
  THEN rows \cup {[from_currency |-> key[2], to_currency |-> key[3], date |-> key[1],
                   rate |-> rate, updated_at |-> updatedAt]}
  ELSE (rows \ Matching(rows, key))
         \cup {[from_currency |-> key[2], to_currency |-> key[3], date |-> key[1],
                rate |-> rate, updated_at |-> serverNow]}

PruneAll(apiCalls, now) == <<>>
RECURSIVE Prune(_, _)
\* lines 60-62
Prune(apiCalls, now) ==
  IF Len(apiCalls) > 0 /\ now - Head(apiCalls) > ONE_MINUTE
  THEN Prune(Tail(apiCalls), now)
  ELSE apiCalls

UnderCeilingAlways(apiCalls) == TRUE
\* line 63
UnderCeiling(apiCalls) == Len(apiCalls) < MAX_CALLS_PER_MINUTE

OnDeniedRecords(pruned, now) == Append(pruned, now)
\* lines 119-121: a denied call throws before line 124, nothing is recorded
OnDenied(pruned, now) == pruned

OnAdmittedUnrecorded(pruned, now) == pruned
\* line 124: the admitted call records the now of line 77
OnAdmitted(pruned, now) == Append(pruned, now)

\* lines 57-64: the verdict, on the pruned sequence
canMakeApiCall(apiCalls, now) == UnderCeiling(Prune(apiCalls, now))

AfterUpsertFatal(upsertError, rate) ==
  IF upsertError THEN Failure("upsert failed") ELSE Value(rate)
\* lines 155-173: the upsert's error is logged, the rate is returned
AfterUpsert(upsertError, rate) == Value(rate)

ProviderVerdictLenient(data) ==
  IF data.result = "throw" THEN FetchError
  ELSE IF data.result = "error" THEN ApiError
  ELSE "ok"
\* lines 127-139: the error the answer raises, "ok" when it carries a rate
ProviderVerdict(data) ==
  IF data.result = "throw" THEN FetchError
  ELSE IF data.result = "error" THEN ApiError
  ELSE IF data.rate = 0 THEN NoRateError
  ELSE "ok"

RethrowFallsBack(recorded, err) ==
  IF recorded # 0 THEN Value(recorded) ELSE Failure(err)
\* lines 174-179: the catch block rethrows, whatever is recorded for the key
Rethrow(recorded, err) == Failure(err)

\* line 193: amount * rate in doubles, for a finite rate: NaN stays NaN, an
\* infinity keeps or changes its sign with the rate's, and times 0 is NaN
Mul(amount, rate) ==
  IF amount = NaN THEN NaN
  ELSE IF amount \in {Infinity, NegInfinity}
  THEN IF rate = 0 THEN NaN
       ELSE IF rate > 0 THEN amount
       ELSE 0 - amount
  ELSE amount * rate

\* the CHECK constraint of the table: both codes are supported ones
Supported(fromCurrency, toCurrency) ==
  fromCurrency \in Currency /\ toCurrency \in Currency

\* lines 191-197
convertAmountResult(amount, rateResult) ==
  IF rateResult.kind = "value" THEN Value(Mul(amount, rateResult.val))
  ELSE Failure(ConvertError)

\* ------------------------------------------------------------ screens
\* what a screen shows once its load has ended: whether the conversion
\* failed, whether the user gets a notice, whether the load's result was
\* published, and whether the published result has the converted amount
Screens == {"home", "transactions", "analytics", "detail"}
NoScreen ==
  [name |-> "none", failed |-> FALSE, notice |-> FALSE, published |-> FALSE,
   converted |-> FALSE]
Shown(name, result, notice, published) ==
  [name |-> name, failed |-> result.kind = "error",
   notice |-> result.kind = "error" /\ notice,
   published |-> result.kind = "value" \/ published,
   converted |-> result.kind = "value"]

\* Home: the rejected Promise.all skips setSummary; the catch only logs
loadData(result) == Shown("home", result, FALSE, FALSE)
\* Transactions: each conversion has its own try/catch, which logs and
\* returns the transaction without convertedAmount; the list is published
loadTransactions(result) == Shown("transactions", result, FALSE, TRUE)
\* Analytics: the catch calls setError, nothing is published
fetchAnalytics(result) == Shown("analytics", result, TRUE, FALSE)
\* Transaction detail: the catch raises an alert and navigates back
loadTransaction(result) == Shown("detail", result, TRUE, FALSE)

ScreenOutcome(name, result) ==
  IF name = "home" THEN loadData(result)
  ELSE IF name = "transactions" THEN loadTransactions(result)
  ELSE IF name = "analytics" THEN fetchAnalytics(result)
  ELSE loadTransaction(result)

\* ------------------------------------------------------------ initial state
IdleCall ==
  [pc |-> "idle", amount |-> 0, fromCurrency |-> "USD", toCurrency |-> "USD",
   date |-> 0, now |-> 0, rate |-> 0, updatedAt |-> 0, dbRate |-> NoAnswer,
   dbError |-> FALSE, upsertError |-> FALSE,
   src |-> "none", recorded |-> 0, data |-> NoData,
   lookups |-> 0, fetches |-> 0, upserts |-> 0,
   rateResult |-> NoResult, result |-> NoResult]

Init ==
  /\ clock = 0
  /\ exchangeRatesCache = <<>>
  /\ API_CALLS = <<>>
  /\ store = {}
  /\ calls = [t \in Tasks |-> IdleCall]
  /\ nCalls = 0
  /\ nTicks = 0
  /\ caller = "A"
  /\ attempts = <<>>
  /\ screen = NoScreen

KeyOf(c) == CacheKey(c.fromCurrency, c.toCurrency, c.date)

FinishNever(c, src, rateResult) == [c EXCEPT !.src = src, !.dbRate = NoAnswer]
\* the call returns (or throws) rateResult from getExchangeRate; its locals
\* go out of scope
Finish(c, src, rateResult) ==
  [c EXCEPT !.pc = "done", !.src = src, !.rateResult = rateResult,
            !.now = 0, !.rate = 0, !.updatedAt = 0, !.dbRate = NoAnswer,
            !.result = convertAmountResult(c.amount, rateResult)]

\* history: the rate the cache holds for the key, fresh or not, when an
\* invocation starts (0: none)
Recorded(cache, key) == IF key \in DOMAIN cache THEN cache[key].rate ELSE 0

\* history of the admission checks, kept where a claim reads it
Log(log, logged, at, now, admitted) ==
  IF logged THEN Append(log, [at |-> at, now |-> now, admitted |-> admitted]) ELSE log

\* ------------------------------------------------------------ actions
\* convertAmount(amount, from, to, date) is called: getExchangeRate runs to
\* its first await (lines 74-96)
Call(t, requests, budget) ==
  /\ calls[t].pc \in {"idle", "done"}
  /\ nCalls < budget
  /\ \E req \in requests :
       LET c == [IdleCall EXCEPT !.amount = req[1],
                                 !.fromCurrency = req[2], !.toCurrency = req[3],
                                 !.date = req[4], !.now = clock,
                                 !.recorded = Recorded(exchangeRatesCache,
                                                CacheKey(req[2], req[3], req[4]))]
           key == KeyOf(c)
       IN calls' = [calls EXCEPT ![t] =
            IF IsIdentity(c.fromCurrency, c.toCurrency)
            THEN Finish(c, "identity", Value(1))
            ELSE IF CacheFresh(exchangeRatesCache, key, c.now)
            THEN Finish(c, "cache", Value(exchangeRatesCache[key].rate))
            ELSE [c EXCEPT !.pc = "select", !.lookups = 1]]
  /\ nCalls' = nCalls + 1
  /\ caller' = t
  /\ UNCHANGED <<clock, exchangeRatesCache, API_CALLS, store, nTicks, attempts, screen>>

\* the store executes the SELECT of lines 90-96 (or fails to): the answer
\* carries what the table holds now
StoreLookup(t, lookupFailures) ==
  /\ calls[t].pc = "select"
  /\ \E fails \in lookupFailures :
       LET dbRate == Single(store, KeyOf(calls[t]), fails)
       IN calls' = [calls EXCEPT ![t] =
            [calls[t] EXCEPT !.pc = "lookup", !.dbRate = dbRate, !.dbError = dbRate.error]]
  /\ UNCHANGED <<clock, exchangeRatesCache, API_CALLS, store, nCalls, nTicks, caller,
                 attempts, screen>>

\* the lookup's answer arrives: lines 98-129
LookupRespond(t, logged) ==
  /\ calls[t].pc = "lookup"
  /\ LET c == calls[t]
         key == KeyOf(c)
         dbRate == c.dbRate
         pruned == Prune(API_CALLS, clock)
     IN IF StoreFresh(dbRate, c.now)
        THEN /\ exchangeRatesCache' = CachePut(exchangeRatesCache, key, dbRate.rate, c.now)
             /\ calls' = [calls EXCEPT ![t] = Finish(c, "store", Value(dbRate.rate))]
             /\ UNCHANGED <<API_CALLS, attempts>>
        ELSE IF ~canMakeApiCall(API_CALLS, clock)
        THEN /\ API_CALLS' = OnDenied(pruned, c.now)
             /\ attempts' = Log(attempts, logged, clock, c.now, FALSE)
             /\ calls' = [calls EXCEPT ![t] =
                  Finish(c, "none", Rethrow(c.recorded, RateLimitError))]
             /\ UNCHANGED exchangeRatesCache
        ELSE /\ API_CALLS' = OnAdmitted(pruned, c.now)
             /\ attempts' = Log(attempts, logged, clock, c.now, TRUE)
             /\ calls' = [calls EXCEPT ![t] =
                  [c EXCEPT !.pc = "fetch", !.fetches = 1, !.dbRate = NoAnswer]]
             /\ UNCHANGED exchangeRatesCache
  /\ UNCHANGED <<clock, store, nCalls, nTicks, caller, screen>>

\* the provider answers: lines 130-153
ProviderRespond(t, responses) ==
  /\ calls[t].pc = "fetch"
  /\ \E data \in responses :
       LET c == [calls[t] EXCEPT !.data = data]
       IN calls' = [calls EXCEPT ![t] =
            IF ProviderVerdict(data) # "ok"
            THEN Finish(c, "none", Rethrow(c.recorded, ProviderVerdict(data)))
            ELSE [c EXCEPT !.pc = "upsert", !.rate = data.rate, !.updatedAt = clock,
                           !.upserts = 1]]
  /\ UNCHANGED <<clock, exchangeRatesCache, API_CALLS, store, nCalls, nTicks, caller,
                 attempts, screen>>

\* the store serves the upsert request (or fails to)
StoreUpsert(t, upsertFailures) ==
  /\ calls[t].pc = "upsert"
  /\ \E fails \in upsertFailures :
       LET c == calls[t]
           rejected == fails \/ ~Supported(c.fromCurrency, c.toCurrency)
       IN /\ store' = IF rejected THEN store
                      ELSE Upsert(store, KeyOf(c), c.rate, c.updatedAt, clock)
          /\ calls' = [calls EXCEPT ![t] =
               [c EXCEPT !.pc = "written", !.upsertError = rejected]]
  /\ UNCHANGED <<clock, exchangeRatesCache, API_CALLS, nCalls, nTicks, caller, attempts,
                 screen>>

\* the upsert's answer arrives: lines 155-173
UpsertRespond(t) ==
  /\ calls[t].pc = "written"
  /\ LET c == calls[t]
     IN /\ exchangeRatesCache' = CachePut(exchangeRatesCache, KeyOf(c), c.rate, c.now)
        /\ calls' = [calls EXCEPT ![t] = Finish(c, "provider", AfterUpsert(c.upsertError, c.rate))]
  /\ UNCHANGED <<clock, API_CALLS, store, nCalls, nTicks, caller, attempts, screen>>

\* time passes
Tick(steps, budget) ==
  /\ nTicks < budget
  /\ \E d \in steps : clock' = clock + d
  /\ nTicks' = nTicks + 1
  /\ UNCHANGED <<exchangeRatesCache, API_CALLS, store, calls, nCalls, caller, attempts,
                 screen>>

\* the process is restarted while no invocation runs: the module state is
\* lost (lines 41 and 47), the table is not
Restart(tasks) ==
  /\ \A t \in tasks : calls[t].pc \in {"idle", "done"}
  /\ exchangeRatesCache # <<>> \/ API_CALLS # <<>>
  /\ exchangeRatesCache' = <<>>
  /\ API_CALLS' = <<>>
  /\ UNCHANGED <<clock, store, calls, nCalls, nTicks, caller, attempts, screen>>

\* another writer of the table inserts the row of a key that has none
ForeignInsert(requests, rates) ==
  /\ \E req \in requests, r \in rates :
       LET key == CacheKey(req[2], req[3], req[4])
       IN /\ Matching(store, key) = {}
          /\ Supported(req[2], req[3])
          /\ store' = Upsert(store, key, r, clock, clock)
  /\ UNCHANGED <<clock, exchangeRatesCache, API_CALLS, calls, nCalls, nTicks, caller, attempts,
                 screen>>

\* the load of a screen that awaited t's conversion ends
ScreenEnds(t) ==
  /\ calls[t].pc = "done"
  /\ \E name \in Screens : screen' = ScreenOutcome(name, calls[t].result)
  /\ UNCHANGED <<clock, exchangeRatesCache, API_CALLS, store, calls, nCalls, nTicks, caller,
                 attempts>>

Next ==
  \/ \E t \in Tasks : Call(t, Requests, MaxCalls)
  \/ \E t \in Tasks : StoreLookup(t, BOOLEAN)
  \/ \E t \in Tasks : LookupRespond(t, FALSE)
  \/ \E t \in Tasks : ProviderRespond(t, ProviderResponses)
  \/ \E t \in Tasks : StoreUpsert(t, BOOLEAN)
  \/ \E t \in Tasks : UpsertRespond(t)
  \/ Tick(TickSteps, MaxTicks)

Spec == Init /\ [][Next]_vars

\* the limiter at its ceiling: many invocations, one after the other, of few
\* inputs
NextLimiter ==
  \/ Call("A", LimiterRequests, MaxLimiterCalls)
  \/ StoreLookup("A", {FALSE})
  \/ LookupRespond("A", TRUE)
  \/ ProviderRespond("A", LimiterProviderResponses)
  \/ StoreUpsert("A", {FALSE})
  \/ UpsertRespond("A")
  \/ Tick(LimiterTickSteps, MaxLimiterTicks)

SpecLimiter == Init /\ [][NextLimiter]_vars

\* failures with a stale record at hand: one caller, one key, the limiter
\* filled after the record has aged
NextFailure ==
  \/ Call("A", LimiterRequests, MaxFailureCalls)
  \/ StoreLookup("A", {FALSE})
  \/ LookupRespond("A", FALSE)
  \/ ProviderRespond("A", FailureProviderResponses)
  \/ StoreUpsert("A", {FALSE})
  \/ UpsertRespond("A")
  \/ Tick(FailureTickSteps, MaxFailureTicks)

SpecFailure == Init /\ [][NextFailure]_vars

\* two callers whose store and provider requests are all answered in the end
NextFair ==
  \/ \E t \in Tasks : Call(t, Requests, MaxFairCalls)
  \/ \E t \in Tasks : StoreLookup(t, BOOLEAN)
  \/ \E t \in Tasks : LookupRespond(t, FALSE)
  \/ \E t \in Tasks : ProviderRespond(t, FailureProviderResponses)
  \/ \E t \in Tasks : StoreUpsert(t, BOOLEAN)
  \/ \E t \in Tasks : UpsertRespond(t)
  \/ Tick(TickSteps, MaxFairTicks)

Responsive ==
  \A t \in Tasks :
    /\ WF_vars(StoreLookup(t, BOOLEAN))
    /\ WF_vars(LookupRespond(t, FALSE))
    /\ WF_vars(ProviderRespond(t, FailureProviderResponses))
    /\ WF_vars(StoreUpsert(t, BOOLEAN))
    /\ WF_vars(UpsertRespond(t))

SpecFair == Init /\ [][NextFair]_vars /\ Responsive

\* two callers asking for times of day around midnight
NextDay ==
  \/ \E t \in Tasks : Call(t, DayRequests, MaxDayCalls)
  \/ \E t \in Tasks : StoreLookup(t, {FALSE})
  \/ \E t \in Tasks : LookupRespond(t, FALSE)
  \/ \E t \in Tasks : ProviderRespond(t, SessionProviderResponses)
  \/ \E t \in Tasks : StoreUpsert(t, {FALSE})
  \/ \E t \in Tasks : UpsertRespond(t)
  \/ Tick(TickSteps, MaxDayTicks)

SpecDay == Init /\ [][NextDay]_vars

\* one caller, a provider and a second writer of the table that give rates
\* of any sign
NextForeign ==
  \/ Call("A", LimiterRequests, MaxForeignCalls)
  \/ StoreLookup("A", {FALSE})
  \/ LookupRespond("A", FALSE)
  \/ ProviderRespond("A", ForeignProviderResponses)
  \/ StoreUpsert("A", {FALSE})
  \/ UpsertRespond("A")
  \/ Tick(TickSteps, MaxForeignTicks)
  \/ ForeignInsert(LimiterRequests, ForeignRates)

SpecForeign == Init /\ [][NextForeign]_vars

\* one caller whose conversions are awaited by the loading screens
NextScreens ==
  \/ Call("A", LimiterRequests, MaxScreenCalls)
  \/ StoreLookup("A", {FALSE})
  \/ LookupRespond("A", FALSE)
  \/ ProviderRespond("A", LimiterProviderResponses)
  \/ StoreUpsert("A", {FALSE})
  \/ UpsertRespond("A")
  \/ Tick(TickSteps, MaxScreenTicks)
  \/ ScreenEnds("A")

SpecScreens == Init /\ [][NextScreens]_vars

\* two callers racing on one key: the store answers every lookup and accepts
\* every upsert, nothing else writes the store, the provider's rate varies
RaceProviderResponses ==
  { [result |-> "success", rate |-> 3],
    [result |-> "success", rate |-> 4] }

NextRace ==
  \/ \E t \in Tasks : Call(t, LimiterRequests, MaxRaceCalls)
  \/ \E t \in Tasks : StoreLookup(t, {FALSE})
  \/ \E t \in Tasks : LookupRespond(t, FALSE)
  \/ \E t \in Tasks : ProviderRespond(t, RaceProviderResponses)
  \/ \E t \in Tasks : StoreUpsert(t, {FALSE})
  \/ \E t \in Tasks : UpsertRespond(t)

SpecRace == Init /\ [][NextRace]_vars

\* two callers at the limiter's ceiling: every fetch fails, so every
\* invocation reaches the admission check
NextCeiling ==
  \/ \E t \in Tasks : Call(t, LimiterRequests, MaxCeilingCalls)
  \/ \E t \in Tasks : StoreLookup(t, {FALSE})
  \/ \E t \in Tasks : LookupRespond(t, FALSE)
  \/ \E t \in Tasks : ProviderRespond(t, CeilingProviderResponses)
  \/ Tick(CeilingTickSteps, MaxCeilingTicks)

SpecCeiling == Init /\ [][NextCeiling]_vars

\* one caller over the life of the installation: several keys, restarts of
\* the process, inputs outside the declared types
NextSession ==
  \/ Call("A", SessionRequests, MaxSessionCalls)
  \/ StoreLookup("A", {FALSE})
  \/ LookupRespond("A", FALSE)
  \/ ProviderRespond("A", SessionProviderResponses)
  \/ StoreUpsert("A", {FALSE})
  \/ UpsertRespond("A")
  \/ Tick(TickSteps, MaxSessionTicks)
  \/ Restart({"A"})

SpecSession == Init /\ [][NextSession]_vars

\* ------------------------------------------------------------ steps
\* task t makes a new invocation in this step
Starts(t) == nCalls' = nCalls + 1 /\ caller' = t
\* the store executes the lookup of t's invocation in this step
Looked(t) == calls[t].pc = "select" /\ calls'[t].pc = "lookup"
\* the answer of the lookup of t's invocation arrives in this step
LookupAnswered(t) == calls[t].pc = "lookup" /\ calls'[t].pc # "lookup"
\* the upsert of t's invocation is answered in this step
UpsertAnswered(t) == calls[t].pc = "written" /\ calls'[t].pc = "done"
\* t's invocation returns or throws in this step
Returns(t) == (Starts(t) \/ calls[t].pc \notin {"idle", "done"}) /\ calls'[t].pc = "done"
NoIO(c) == c.lookups = 0 /\ c.fetches = 0 /\ c.upserts = 0
Distinct(c) == c.fromCurrency # c.toCurrency
HasRow(key) == Matching(store, key) # {}
RowOf(key) == CHOOSE r \in Matching(store, key) : TRUE

\* ------------------------------------------------------------ claims
\* C1: getExchangeRate(X, X, date) returns 1 at once: no store lookup, no
\* provider call, no upsert, and the cache, the store and API_CALLS stay as
\* they were.
C1_IdentityNoIO ==
  [][\A t \in Tasks :
       (Starts(t) /\ calls'[t].fromCurrency = calls'[t].toCurrency)
         => /\ calls'[t].pc = "done"
            /\ calls'[t].rateResult = Value(1)
            /\ NoIO(calls'[t])
            /\ exchangeRatesCache' = exchangeRatesCache
            /\ API_CALLS' = API_CALLS
            /\ store' = store]_vars

C1_Witness ==
  \E t \in Tasks :
    /\ calls[t].pc = "done" /\ calls[t].src = "identity"
    /\ calls[t].fromCurrency = calls[t].toCurrency
    /\ calls[t].rateResult = Value(1)
    /\ exchangeRatesCache # <<>> /\ API_CALLS # <<>> /\ store # {}

\* C2: for from # to, a call that finds a cache entry younger than 6 hours
\* returns that rate with no I/O (so a repeated convertAmount on a warm cache
\* returns the same amount); with an entry of 6 hours or more it goes on to
\* the store lookup.
C2_CacheFreshness ==
  [][\A t \in Tasks :
       LET c == calls'[t]
           key == KeyOf(c)
       IN (Starts(t) /\ Distinct(c) /\ key \in DOMAIN exchangeRatesCache)
            => IF clock - exchangeRatesCache[key].timestamp < CACHE_EXPIRATION
               THEN /\ c.pc = "done"
                    /\ c.rateResult = Value(exchangeRatesCache[key].rate)
                    /\ c.result = Value(c.amount * exchangeRatesCache[key].rate)
                    /\ NoIO(c)
                    /\ \A u \in Tasks :
                         (/\ calls[u].pc = "done"
                          /\ calls[u].amount = c.amount
                          /\ KeyOf(calls[u]) = key
                          /\ calls[u].rateResult = Value(exchangeRatesCache[key].rate))
                           => c.result = calls[u].result
               ELSE /\ c.pc = "select"
                    /\ c.lookups = 1
                    /\ c.rateResult = NoResult]_vars

C2_Witness ==
  \E t, u \in Tasks :
    /\ t # u
    /\ calls[u].pc = "done" /\ calls[u].src = "provider"
    /\ calls[t].pc = "done" /\ calls[t].src = "cache"
    /\ KeyOf(calls[t]) = KeyOf(calls[u])
    /\ calls[t].amount = calls[u].amount
    /\ calls[t].result = calls[u].result
    /\ calls[t].result.kind = "value"
    /\ clock - exchangeRatesCache[KeyOf(calls[t])].timestamp = CACHE_EXPIRATION - 1

\* C3 as claimed: once a rate is recorded for a key, every later successful
\* call for the key returns that rate (here: a call that starts when the
\* cache holds a rate for its key returns that rate if it returns one).
C3_Original ==
  \A t \in Tasks :
    (calls[t].pc = "done" /\ calls[t].rateResult.kind = "value" /\ calls[t].recorded # 0)
      => calls[t].rateResult.val = calls[t].recorded

\* C3 amended: a successful call returns the recorded rate as long as the
\* record it reads is younger than 6 hours (the cache entry at the start, the
\* store row its lookup read); otherwise it returns the rate the
\* provider reports then, and that rate replaces the cached one.
C3_RecordedWhileFresh ==
  [][\A t \in Tasks :
       LET c == calls'[t]
           key == KeyOf(c)
       IN (Returns(t) /\ Distinct(c) /\ c.rateResult.kind = "value")
            => \/ /\ Starts(t)
                  /\ key \in DOMAIN exchangeRatesCache
                  /\ clock - exchangeRatesCache[key].timestamp < CACHE_EXPIRATION
                  /\ c.rateResult.val = exchangeRatesCache[key].rate
               \/ /\ LookupAnswered(t)
                  /\ ~calls[t].dbRate.error
                  /\ calls[t].now - calls[t].dbRate.updated_at < CACHE_EXPIRATION
                  /\ c.rateResult.val = calls[t].dbRate.rate
                  /\ exchangeRatesCache'[key].rate = c.rateResult.val
               \/ /\ UpsertAnswered(t)
                  /\ c.rateResult.val = calls[t].rate
                  /\ exchangeRatesCache'[key].rate = c.rateResult.val]_vars

C3_Witness ==
  \E t, u \in Tasks :
    /\ t # u
    /\ calls[u].pc = "done" /\ calls[u].src = "provider"
    /\ calls[u].rateResult = Value(3)
    /\ calls[t].pc = "done" /\ calls[t].src = "provider"
    /\ calls[t].rateResult = Value(4)
    /\ KeyOf(calls[t]) = KeyOf(calls[u])
    /\ clock = CACHE_EXPIRATION
    /\ exchangeRatesCache[KeyOf(calls[t])] = [rate |-> 4, timestamp |-> CACHE_EXPIRATION]
    /\ HasRow(KeyOf(calls[t]))
    /\ RowOf(KeyOf(calls[t])).rate = 4

\* C4 as claimed: no more than 30 provider fetches start within any 60,000 ms
\* of real time (a fetch starts when its call is admitted).
C4_Original ==
  \A i \in DOMAIN attempts :
    attempts[i].admitted
      => Cardinality({ j \in DOMAIN attempts :
                         /\ attempts[j].admitted
                         /\ attempts[j].at >= attempts[i].at
                         /\ attempts[j].at - attempts[i].at <= ONE_MINUTE })
           <= MAX_CALLS_PER_MINUTE

\* C5 as claimed: from a fresh limiter, of 31 admission attempts made within
\* 10 seconds the first 30 are admitted and the 31st is denied, and an attempt
\* 61 seconds after the first admitted one is admitted.
C5_Original ==
  LET n == Len(attempts)
      last == MAX_CALLS_PER_MINUTE + 1
      burst == /\ n >= last
               /\ \A i \in 1..last : attempts[i].at - attempts[1].at <= 10000
  IN /\ burst => /\ \A i \in 1..MAX_CALLS_PER_MINUTE : attempts[i].admitted
                 /\ ~attempts[last].admitted
     /\ (burst /\ n >= last + 1 /\ attempts[last + 1].at - attempts[1].at >= 61000)
          => attempts[last + 1].admitted

\* the admission check of t's invocation runs in this step
Checked(t) == LookupAnswered(t) /\ calls'[t].src # "store"
\* API_CALLS as canMakeApiCall leaves it in this step, before line 124
AfterCheck(t) ==
  IF calls'[t].pc = "fetch" THEN SubSeq(API_CALLS', 1, Len(API_CALLS') - 1) ELSE API_CALLS'

\* C6 as claimed: at the end of every admission check every timestamp left in
\* API_CALLS lies within the 60,000 ms before the check.
C6_Original ==
  [][\A t \in Tasks :
       Checked(t)
         => \A i \in DOMAIN AfterCheck(t) :
              /\ AfterCheck(t)[i] <= clock
              /\ clock - AfterCheck(t)[i] <= ONE_MINUTE]_vars

\* C7: after an admitted, successful fetch of rate r the call upserts
\* (from, to, date, r), then caches r, then returns r; from an empty store and
\* cache convertAmount(a, ...) returns a * r with exactly one row, of rate r,
\* in the store, and an identical call within the 6 hours is served with no
\* store or provider call.
C7_FetchStoreCacheReturn ==
  [][\A t \in Tasks :
       LET c == calls[t]
           d == calls'[t]
           key == KeyOf(d)
       IN /\ (c.pc = "upsert" /\ d.pc = "written" /\ ~d.upsertError)
               => /\ c.fetches = 1 /\ c.rate # 0
                  /\ Cardinality(Matching(store', key)) = 1
                  /\ \A r \in Matching(store', key) : r.rate = c.rate
                  /\ store' \ Matching(store', key) = store \ Matching(store, key)
                  /\ exchangeRatesCache' = exchangeRatesCache
                  /\ d.rateResult = NoResult
          /\ UpsertAnswered(t)
               => /\ c.upserts = 1
                  /\ exchangeRatesCache'[key] = [rate |-> c.rate, timestamp |-> c.now]
                  /\ d.rateResult = Value(c.rate)
                  /\ d.result = Value(c.amount * c.rate)
                  /\ store' = store
          /\ (UpsertAnswered(t) /\ ~c.upsertError /\ nCalls = 1)
               => /\ store' = {[from_currency |-> c.fromCurrency, to_currency |-> c.toCurrency,
                                date |-> DateStr(c.date), rate |-> c.rate,
                                updated_at |-> c.updatedAt]}
                  /\ DOMAIN exchangeRatesCache' = {key}
          /\ (/\ Starts(t)
              /\ \E u \in Tasks :
                   /\ calls[u].pc = "done" /\ calls[u].src = "provider"
                   /\ KeyOf(calls[u]) = key /\ calls[u].amount = d.amount
                   /\ key \in DOMAIN exchangeRatesCache
                   /\ calls[u].rateResult = Value(exchangeRatesCache[key].rate)
                   /\ clock - exchangeRatesCache[key].timestamp < CACHE_EXPIRATION)
               => /\ d.pc = "done" /\ NoIO(d)
                  /\ d.result = Value(d.amount * exchangeRatesCache[key].rate)]_vars

C7_Witness ==
  \E t, u \in Tasks :
    /\ t # u /\ nCalls = 2
    /\ calls[u].pc = "done" /\ calls[u].src = "provider"
    /\ calls[u].amount = 200 /\ calls[u].result = Value(600)
    /\ calls[t].pc = "done" /\ calls[t].src = "cache" /\ NoIO(calls[t])
    /\ calls[t].amount = 200 /\ calls[t].result = Value(600)
    /\ KeyOf(calls[t]) = KeyOf(calls[u])
    /\ Cardinality(store) = 1
    /\ \A r \in store : r.rate = 3 /\ r.date = KeyOf(calls[u])[1]
    /\ clock = CACHE_EXPIRATION - 1

\* C8: a call that misses the cache and whose lookup finds a store row
\* younger than 6 hours (the lookup reads the one row of the call's key)
\* returns that row's rate and caches it, with no admission check, no limiter
\* timestamp, no provider call and no store write.
C8_StoreHit ==
  [][\A t \in Tasks :
       LET c == calls[t]
           d == calls'[t]
           key == KeyOf(c)
       IN /\ (Looked(t) /\ ~d.dbError)
               => /\ Cardinality(Matching(store, key)) = 1
                  /\ d.dbRate.rate = RowOf(key).rate
                  /\ d.dbRate.updated_at = RowOf(key).updated_at
                  /\ store' = store /\ exchangeRatesCache' = exchangeRatesCache
          /\ (/\ LookupAnswered(t) /\ ~c.dbRate.error
              /\ c.now - c.dbRate.updated_at < CACHE_EXPIRATION)
            => /\ d.pc = "done"
               /\ d.rateResult = Value(c.dbRate.rate)
               /\ exchangeRatesCache' =
                    [k \in DOMAIN exchangeRatesCache \cup {key} |->
                       IF k = key THEN [rate |-> c.dbRate.rate, timestamp |-> c.now]
                       ELSE exchangeRatesCache[k]]
               /\ API_CALLS' = API_CALLS
               /\ attempts' = attempts
               /\ store' = store
               /\ d.fetches = 0 /\ d.upserts = 0]_vars

C8_Witness ==
  \E t \in Tasks :
    /\ calls[t].pc = "done" /\ calls[t].src = "store"
    /\ calls[t].rateResult.kind = "value"
    /\ HasRow(KeyOf(calls[t]))
    /\ calls[t].rateResult.val = RowOf(KeyOf(calls[t])).rate
    /\ KeyOf(calls[t]) \in DOMAIN exchangeRatesCache
    /\ exchangeRatesCache[KeyOf(calls[t])].rate = calls[t].rateResult.val
    /\ calls[t].fetches = 0
    /\ \E i \in DOMAIN API_CALLS : clock - API_CALLS[i] > ONE_MINUTE

\* C9: when the upsert after a successful fetch reports an error, the call
\* still returns the fetched rate and still caches it.
C9_UpsertErrorNotFatal ==
  [][\A t \in Tasks :
       (UpsertAnswered(t) /\ calls[t].upsertError)
         => /\ calls'[t].rateResult = Value(calls[t].rate)
            /\ calls'[t].result = Value(calls[t].amount * calls[t].rate)
            /\ KeyOf(calls[t]) \in DOMAIN exchangeRatesCache'
            /\ exchangeRatesCache'[KeyOf(calls[t])] =
                 [rate |-> calls[t].rate, timestamp |-> calls[t].now]]_vars

C9_Witness ==
  \E t \in Tasks :
    /\ calls[t].pc = "done" /\ calls[t].src = "provider" /\ calls[t].upsertError
    /\ calls[t].rateResult = Value(3)
    /\ exchangeRatesCache[KeyOf(calls[t])].rate = 3
    /\ ~HasRow(KeyOf(calls[t]))

IsSuffix(s, whole) ==
  /\ Len(s) <= Len(whole)
  /\ s = SubSeq(whole, Len(whole) - Len(s) + 1, Len(whole))

\* C10: a call denied by the limiter, with nothing cached or stored for its
\* key, fails with the rate-limit error, starts no provider call and leaves
\* the cache, the store and (but for pruning) API_CALLS as they were.
C10_DeniedNoEffect ==
  [][\A t \in Tasks :
       LET key == KeyOf(calls[t])
       IN (/\ LookupAnswered(t) /\ calls'[t].pc = "done"
           /\ key \notin DOMAIN exchangeRatesCache
           /\ ~HasRow(key))
            => /\ calls'[t].rateResult = Failure(RateLimitError)
               /\ calls'[t].fetches = 0
               /\ Len(API_CALLS) >= MAX_CALLS_PER_MINUTE
               /\ IsSuffix(API_CALLS', API_CALLS)
               /\ exchangeRatesCache' = exchangeRatesCache
               /\ store' = store
               /\ attempts' = Append(attempts, [at |-> clock, now |-> calls[t].now,
                                                 admitted |-> FALSE])]_vars

C10_Witness ==
  \E t \in Tasks :
    /\ calls[t].pc = "done"
    /\ calls[t].rateResult = Failure(RateLimitError)
    /\ calls[t].fetches = 0
    /\ Len(API_CALLS) = MAX_CALLS_PER_MINUTE
    /\ KeyOf(calls[t]) \notin DOMAIN exchangeRatesCache
    /\ ~HasRow(KeyOf(calls[t]))
    /\ attempts[Len(attempts)].admitted = FALSE

\* the answer of t's lookup carries a row that is fresh for t's invocation
\* (lines 98-100)
FreshRow(t) ==
  /\ ~calls[t].dbRate.error
  /\ calls[t].now - calls[t].dbRate.updated_at < CACHE_EXPIRATION
\* the limiter denies t's invocation in this step
Denied(t) ==
  /\ LookupAnswered(t)
  /\ ~FreshRow(t)
  /\ Len(Prune(API_CALLS, clock)) >= MAX_CALLS_PER_MINUTE
\* the provider answers t's invocation in this step
ProviderAnswered(t) == calls[t].pc = "fetch" /\ calls'[t].pc # "fetch"
\* ... with the error indicator, no rate for the target, or no answer at all
ProviderRefused(t) ==
  /\ ProviderAnswered(t)
  /\ \/ calls'[t].data.result \in {"throw", "error"}
     \/ calls'[t].data.rate = 0

\* C11: on every failure path (limiter denial, provider error, missing
\* target rate) the call fails: it returns no rate, neither a stale cached
\* or stored one nor a default.
C11_FailureNotMasked ==
  [][\A t \in Tasks :
       (Denied(t) \/ ProviderRefused(t))
         => /\ calls'[t].pc = "done"
            /\ calls'[t].rateResult.kind = "error"
            /\ calls'[t].result.kind = "error"]_vars

C11_Witness ==
  \E t \in Tasks :
    /\ calls[t].pc = "done"
    /\ calls[t].rateResult = Failure(RateLimitError)
    /\ calls[t].recorded # 0
    /\ KeyOf(calls[t]) \in DOMAIN exchangeRatesCache
    /\ clock - exchangeRatesCache[KeyOf(calls[t])].timestamp >= CACHE_EXPIRATION
    /\ HasRow(KeyOf(calls[t]))
    /\ Len(API_CALLS) = MAX_CALLS_PER_MINUTE

\* C12: when the provider's answer carries the error indicator, or no rate
\* for the target, the call fails, makes no upsert and writes nothing to the
\* cache.
C12_ProviderErrorNoWrites ==
  [][\A t \in Tasks :
       (/\ ProviderAnswered(t)
        /\ \/ calls'[t].data.result = "error"
           \/ calls'[t].data.result = "success" /\ calls'[t].data.rate = 0)
         => /\ calls'[t].pc = "done"
            /\ calls'[t].rateResult.kind = "error"
            /\ calls'[t].rateResult.err \in {ApiError, NoRateError}
            /\ calls'[t].upserts = 0
            /\ store' = store
            /\ exchangeRatesCache' = exchangeRatesCache]_vars

C12_Witness ==
  \E t \in Tasks :
    /\ calls[t].pc = "done"
    /\ calls[t].data = [result |-> "success", rate |-> 0]
    /\ calls[t].rateResult = Failure(NoRateError)
    /\ calls[t].fetches = 1 /\ calls[t].upserts = 0
    /\ KeyOf(calls[t]) \notin DOMAIN exchangeRatesCache
    /\ ~HasRow(KeyOf(calls[t]))

\* the kind of the error taxonomy a message belongs to
ErrorKind(err) ==
  IF err = RateLimitError THEN "RateLimitExceeded"
  ELSE IF err \in {ApiError, NoRateError} THEN "ProviderError"
  ELSE "RateUnavailable"

\* C13 as claimed: when getExchangeRate fails inside convertAmount,
\* convertAmount fails with an error of the same kind.
C13_Original ==
  \A t \in Tasks :
    (calls[t].pc = "done" /\ calls[t].rateResult.kind = "error")
      => /\ calls[t].result.kind = "error"
         /\ ErrorKind(calls[t].result.err) = ErrorKind(calls[t].rateResult.err)

\* C14: the store never holds two rows of one key (from_currency,
\* to_currency, date), and an upsert for a key that has a row leaves exactly
\* one row for it, with the rate of that upsert.
C14_OneRowPerKey ==
  [][/\ \A r1, r2 \in store' :
          (/\ r1.from_currency = r2.from_currency
           /\ r1.to_currency = r2.to_currency
           /\ r1.date = r2.date) => r1 = r2
     /\ \A t \in Tasks :
          (/\ calls[t].pc = "upsert" /\ calls'[t].pc = "written"
           /\ ~calls'[t].upsertError
           /\ HasRow(KeyOf(calls[t])))
            => /\ Cardinality(Matching(store', KeyOf(calls[t]))) = 1
               /\ \A r \in Matching(store', KeyOf(calls[t])) : r.rate = calls[t].rate
               /\ Cardinality(store') = Cardinality(store)]_vars

C14_Witness ==
  \E t, u \in Tasks :
    /\ t # u
    /\ calls[u].pc = "done" /\ calls[u].src = "provider" /\ ~calls[u].upsertError
    /\ calls[u].rateResult = Value(3)
    /\ calls[t].pc = "written" /\ ~calls[t].upsertError
    /\ calls[t].recorded = 3 /\ calls[t].rate = 4
    /\ KeyOf(calls[t]) = KeyOf(calls[u])
    /\ Cardinality(store) = 1
    /\ RowOf(KeyOf(calls[t])).rate = 4

\* another task's provider call for the key of t's invocation is under way
InFlight(t) ==
  \E u \in Tasks :
    /\ u # t
    /\ calls[u].pc \in {"fetch", "upsert", "written"}
    /\ KeyOf(calls[u]) = KeyOf(calls[t])
\* t and u both got their rate from the provider, for the same key, and
\* both upserts were served
BothFetched(t, u) ==
  /\ t # u
  /\ calls[t].pc = "done" /\ calls[t].src = "provider" /\ ~calls[t].upsertError
  /\ calls[u].pc = "done" /\ calls[u].src = "provider" /\ ~calls[u].upsertError
  /\ KeyOf(calls[t]) = KeyOf(calls[u])

\* C15: there is no single-flight coalescing: a call whose lookup finds no
\* fresh row while another call for the same key is fetching is admitted
\* like any other (while the limiter has room), records its own timestamp
\* and starts its own provider call; once both have completed the store
\* holds exactly one row for the key.
C15_NoCoalescing ==
  [][/\ \A t \in Tasks :
          (/\ LookupAnswered(t) /\ InFlight(t) /\ ~FreshRow(t)
           /\ Len(Prune(API_CALLS, clock)) < MAX_CALLS_PER_MINUTE)
            => /\ calls'[t].pc = "fetch" /\ calls'[t].fetches = 1
               /\ API_CALLS' = Append(Prune(API_CALLS, clock), calls[t].now)
     /\ \A t, u \in Tasks :
          BothFetched(t, u)' => Cardinality(Matching(store', KeyOf(calls'[t]))) = 1]_vars

C15_Witness ==
  \E t, u \in Tasks :
    /\ BothFetched(t, u)
    /\ nTicks = 0 /\ nCalls = 2
    /\ calls[t].recorded = 0 /\ calls[u].recorded = 0
    /\ calls[t].lookups = 1 /\ calls[u].lookups = 1
    /\ calls[t].fetches = 1 /\ calls[u].fetches = 1
    /\ Len(API_CALLS) = 2
    /\ Cardinality(Matching(store, KeyOf(calls[t]))) = 1

\* C16 as claimed: when two concurrent calls for one key both fetch, the
\* rate the cache holds once both have completed does not depend on which
\* call's result landed last.  The call that lands last leaves the rate it
\* fetched (C7), so the claim says the cached rate is the rate of either
\* call.
C16_Original ==
  \A t, u \in Tasks :
    (BothFetched(t, u) /\ nCalls = 2 /\ nTicks = 0)
      => /\ KeyOf(calls[t]) \in DOMAIN exchangeRatesCache
         /\ exchangeRatesCache[KeyOf(calls[t])].rate = calls[t].rateResult.val

\* C17 as claimed: a call with a from or to code outside {USD, SAR, EGP}
\* fails (also when both codes are the same unsupported code), starts no
\* provider call and writes nothing to the cache or the store.
C17_Original ==
  \A t \in Tasks :
    (calls[t].pc # "idle" /\ ~Supported(calls[t].fromCurrency, calls[t].toCurrency))
      => /\ calls[t].pc = "done"
         /\ calls[t].rateResult.kind = "error"
         /\ calls[t].result.kind = "error"
         /\ calls[t].fetches = 0 /\ calls[t].upserts = 0
         /\ KeyOf(calls[t]) \notin DOMAIN exchangeRatesCache
         /\ ~HasRow(KeyOf(calls[t]))

\* the key of an invocation, from its arguments
ExactKey(c) == <<c.date \div MS_PER_DAY, c.fromCurrency, c.toCurrency>>

\* C18: a rate returned for from # to was read from the cache entry, from
\* the store row, or from the provider's answer, of exactly the call's
\* (date, from, to); no default takes its place.
C18_RateFromExactKey ==
  [][/\ \A t \in Tasks :
       LET c == calls'[t]
           key == ExactKey(c)
           val == c.rateResult.val
       IN (Returns(t) /\ Distinct(c) /\ c.rateResult.kind = "value")
            => \/ /\ Starts(t)
                  /\ key \in DOMAIN exchangeRatesCache
                  /\ val = exchangeRatesCache[key].rate
               \/ /\ LookupAnswered(t)
                  /\ ~calls[t].dbRate.error
                  /\ val = calls[t].dbRate.rate
               \/ /\ UpsertAnswered(t)
                  /\ c.data.result = "success"
                  /\ val = c.data.rate
     /\ \A t \in Tasks :
          (Looked(t) /\ ~calls'[t].dbRate.error)
            => \E r \in store :
                 /\ r.date = ExactKey(calls[t])[1]
                 /\ r.from_currency = ExactKey(calls[t])[2]
                 /\ r.to_currency = ExactKey(calls[t])[3]
                 /\ calls'[t].dbRate.rate = r.rate]_vars

C18_Witness ==
  \E t \in Tasks :
    /\ calls[t].pc = "done" /\ calls[t].src = "provider"
    /\ ExactKey(calls[t]) = <<1, "USD", "SAR">>
    /\ calls[t].rateResult = Value(4)
    /\ calls[t].data = [result |-> "success", rate |-> 4]
    /\ <<0, "USD", "SAR">> \in DOMAIN exchangeRatesCache
    /\ exchangeRatesCache[<<0, "USD", "SAR">>].rate = 3
    /\ clock - exchangeRatesCache[<<0, "USD", "SAR">>].timestamp < CACHE_EXPIRATION
    /\ \E r \in store : r.date = 0 /\ r.rate = 3

\* C19 as claimed: convertAmount with an amount that is NaN, Infinity or
\* -Infinity fails instead of returning an amount.
C19_Original ==
  \A t \in Tasks :
    (calls[t].pc = "done" /\ calls[t].amount \in {NaN, Infinity, NegInfinity})
      => calls[t].result.kind = "error"

\* C20 as claimed: the cache entry created from a store row carries the
\* row's updated_at as its timestamp.
C20_Original ==
  [][\A t \in Tasks :
       (LookupAnswered(t) /\ calls'[t].src = "store")
         => /\ KeyOf(calls[t]) \in DOMAIN exchangeRatesCache'
            /\ exchangeRatesCache'[KeyOf(calls[t])].timestamp
                 = calls[t].dbRate.updated_at]_vars

\* C21 as claimed: API_CALLS is ordered by non-decreasing timestamp in every
\* reachable state.
C21_Original ==
  \A i, j \in DOMAIN API_CALLS :
    i < j => API_CALLS[i] <= API_CALLS[j]

\* C22: a call is admitted iff, after pruning, API_CALLS holds fewer than 30
\* timestamps; the admitted call's timestamp is recorded in the same step
\* as the check, a denied call records none, and API_CALLS never holds more
\* than 30 timestamps.
C22_AdmissionAtomic ==
  [][/\ \A t \in Tasks :
          Checked(t)
            => /\ calls'[t].pc = "fetch"
                    <=> Len(Prune(API_CALLS, clock)) < MAX_CALLS_PER_MINUTE
               /\ calls'[t].pc = "fetch"
                    => API_CALLS' = Append(Prune(API_CALLS, clock), calls[t].now)
               /\ calls'[t].pc # "fetch"
                    => /\ API_CALLS' = Prune(API_CALLS, clock)
                       /\ calls'[t].rateResult = Failure(RateLimitError)
     /\ Len(API_CALLS') <= MAX_CALLS_PER_MINUTE]_vars

C22_Witness ==
  \E t, u \in Tasks :
    /\ t # u
    /\ Len(API_CALLS) = MAX_CALLS_PER_MINUTE
    /\ calls[t].pc = "done" /\ calls[t].rateResult = Failure(RateLimitError)
    /\ calls[u].pc = "fetch"
    /\ calls[u].now < clock
    /\ API_CALLS[Len(API_CALLS)] = calls[u].now

\* the position of an invocation on its only path
Rank(pc) ==
  IF pc = "select" THEN 1
  ELSE IF pc = "lookup" THEN 2
  ELSE IF pc = "fetch" THEN 3
  ELSE IF pc = "upsert" THEN 4
  ELSE IF pc = "written" THEN 5
  ELSE IF pc = "done" THEN 6
  ELSE 0

\* C23: an invocation issues at most one store lookup, one provider call
\* and one upsert (it only moves forward: lookup, fetch, upsert, return, with
\* no way back), and it returns or fails once every request it issued has
\* been answered.
C23_NoRetryTerminates ==
  /\ [][\A t \in Tasks :
          /\ (~Starts(t) /\ calls'[t] # calls[t]) => Rank(calls'[t].pc) > Rank(calls[t].pc)
          /\ calls'[t].lookups <= 1 /\ calls'[t].fetches <= 1 /\ calls'[t].upserts <= 1
          /\ calls'[t].pc \in {"select", "lookup"}
               => calls'[t].lookups = 1 /\ calls'[t].fetches = 0
          /\ calls'[t].pc = "fetch" => calls'[t].fetches = 1 /\ calls'[t].upserts = 0]_vars
  /\ \A t \in Tasks :
       (calls[t].pc \in {"select", "lookup", "fetch", "upsert", "written"}) ~> (calls[t].pc = "done")

C23_Witness ==
  \E t \in Tasks :
    /\ calls[t].pc = "done" /\ calls[t].src = "provider"
    /\ calls[t].dbError
    /\ calls[t].lookups = 1 /\ calls[t].fetches = 1 /\ calls[t].upserts = 1
    /\ calls[t].rateResult.kind = "value"

\* the process is restarted in this step
Restarted ==
  /\ exchangeRatesCache # <<>> \/ API_CALLS # <<>>
  /\ exchangeRatesCache' = <<>> /\ API_CALLS' = <<>>
  /\ calls' = calls
\* t's invocation resolves the key from a store row or from the provider in
\* this step
Resolves(t, key) ==
  /\ KeyOf(calls[t]) = key
  /\ calls'[t].rateResult.kind = "value"
  /\ \/ LookupAnswered(t) /\ calls'[t].src = "store"
     \/ UpsertAnswered(t)

\* C24: while the process runs no step removes a cache entry: the set of
\* cached keys only grows, an entry (expired or not) changes only when a
\* call for its own key resolves it from the store or the provider, and
\* nothing else writes the cache.
C24_CacheOnlyGrows ==
  [][Restarted
     \/ /\ DOMAIN exchangeRatesCache \subseteq DOMAIN exchangeRatesCache'
        /\ \A key \in DOMAIN exchangeRatesCache' :
             (key \notin DOMAIN exchangeRatesCache
                \/ exchangeRatesCache'[key] # exchangeRatesCache[key])
               => \E t \in Tasks :
                    /\ Resolves(t, key)
                    /\ exchangeRatesCache'[key].rate = calls'[t].rateResult.val]_vars

C24_Witness ==
  /\ <<0, "USD", "SAR">> \in DOMAIN exchangeRatesCache
  /\ <<1, "USD", "SAR">> \in DOMAIN exchangeRatesCache
  /\ clock - exchangeRatesCache[<<0, "USD", "SAR">>].timestamp >= CACHE_EXPIRATION
  /\ exchangeRatesCache[<<1, "USD", "SAR">>].timestamp = clock

\* u's invocation, the only one so far, has resolved a rate for the pair and
\* the UTC day of the invocation t makes in this step, less than 6 hours ago
ResolvedSameDay(t, u) ==
  /\ u # t /\ nCalls = 1
  /\ calls[u].pc = "done" /\ calls[u].src = "provider"
  /\ calls[u].fromCurrency = calls'[t].fromCurrency
  /\ calls[u].toCurrency = calls'[t].toCurrency
  /\ calls[u].date \div MS_PER_DAY = calls'[t].date \div MS_PER_DAY
  /\ clock < CACHE_EXPIRATION

\* C25: two calls for one pair whose dates fall on the same (UTC) calendar
\* day use one cache key and one store key whatever the time of day: the
\* second call, within the freshness window, returns the rate the first
\* cached, with no I/O, and the rows of the store are keyed by the day.
C25_SameDaySameKey ==
  [][/\ \A t, u \in Tasks :
          (Starts(t) /\ ResolvedSameDay(t, u))
            => /\ calls'[t].pc = "done" /\ NoIO(calls'[t])
               /\ calls'[t].rateResult = calls[u].rateResult
     /\ \A r \in store' : \E req \in DayRequests : r.date = req[4] \div MS_PER_DAY
     /\ Cardinality(store') <= 2]_vars

C25_Witness ==
  \E t, u \in Tasks :
    /\ t # u /\ nCalls = 2
    /\ calls[u].pc = "done" /\ calls[u].src = "provider" /\ calls[u].date = 0
    /\ calls[t].pc = "done" /\ calls[t].src = "cache" /\ calls[t].date = MS_PER_DAY - 1
    /\ calls[t].rateResult = calls[u].rateResult
    /\ clock = CACHE_EXPIRATION - 1
    /\ Cardinality(store) = 1

\* C26 as claimed: every rate returned, or written to the cache, for
\* from # to is strictly positive.
C26_Original ==
  /\ \A t \in Tasks :
       (calls[t].pc = "done" /\ Distinct(calls[t]) /\ calls[t].rateResult.kind = "value")
         => calls[t].rateResult.val > 0
  /\ \A key \in DOMAIN exchangeRatesCache : exchangeRatesCache[key].rate > 0

\* C27 as claimed: when a conversion fails while a screen loads, the screen
\* shows a failure notice and publishes nothing.
C27_Original ==
  screen.failed => (screen.notice /\ ~screen.published)

\* the recorded provider calls not older than one minute at the given time
Occupied(apiCalls, now) ==
  Cardinality({i \in 1..Len(apiCalls) : now - apiCalls[i] <= ONE_MINUTE})

\* C28: the limiter's timestamp of an admitted call is recorded before the
\* provider call starts, in addition to the ones still within the window; a
\* provider error or a missing target rate leaves the record as it is, and
\* no step removes a timestamp that is still within the one-minute window:
\* the failed call keeps its slot until it ages out.
C28_FailedCallKeepsSlot ==
  [][/\ \A t \in Tasks :
          /\ calls'[t].pc = "fetch"
               => \E i \in 1..Len(API_CALLS') : API_CALLS'[i] = calls'[t].now
          /\ (LookupAnswered(t) /\ calls'[t].pc = "fetch")
               => Len(API_CALLS') > Occupied(API_CALLS, clock)
          /\ ProviderRefused(t)
               => /\ API_CALLS' = API_CALLS
                  /\ \E i \in 1..Len(API_CALLS') : API_CALLS'[i] = calls[t].now
     /\ Occupied(API_CALLS', clock) >= Occupied(API_CALLS, clock)]_vars

\* an invocation is denied while no provider call has ever succeeded: all 30
\* slots are held by calls that failed
C28_Witness ==
  /\ calls["A"].pc = "done"
  /\ calls["A"].fetches = 0
  /\ calls["A"].rateResult = Failure(RateLimitError)
  /\ Occupied(API_CALLS, clock) = MAX_CALLS_PER_MINUTE
  /\ exchangeRatesCache = <<>>
  /\ store = {}

\* the store accepts t's upsert in this step
Written(t) ==
  calls[t].pc = "upsert" /\ calls'[t].pc = "written" /\ ~calls'[t].upsertError

\* C29: a store lookup that reports an error (no row included) or finds a
\* row 6 hours old or more does not fail the call: the call goes on to the
\* admission check and, if admitted, to the provider; the cache and the store
\* are left alone by the lookup. A successful fetch then overwrites the rate
\* of the row the store has for the key.
C29_LookupErrorIsMiss ==
  [][\A t \in Tasks :
       LET c == calls[t]
           d == calls'[t]
           key == KeyOf(c)
       IN /\ (LookupAnswered(t) /\ (d.dbError \/ ~FreshRow(t)))
               => /\ IF Len(Prune(API_CALLS, clock)) < MAX_CALLS_PER_MINUTE
                     THEN d.pc = "fetch" /\ d.fetches = 1
                     ELSE d.pc = "done" /\ d.rateResult = Failure(RateLimitError)
                  /\ exchangeRatesCache' = exchangeRatesCache
                  /\ store' = store
          /\ (Written(t) /\ HasRow(key))
               => /\ Cardinality(Matching(store', key)) = 1
                  /\ \A r \in Matching(store', key) : r.rate = c.rate
                  /\ store' \ Matching(store', key) = store \ Matching(store, key)]_vars

\* one invocation's lookup reported an error and the provider's rate was
\* returned; a later one found the row stale and replaced its rate
C29_Witness ==
  \E t, u \in Tasks :
    /\ calls[t].pc = "done" /\ calls[t].dbError
    /\ calls[t].src = "provider" /\ calls[t].rateResult.kind = "value"
    /\ calls[u].pc = "done" /\ ~calls[u].dbError /\ ~calls[u].upsertError
    /\ calls[u].src = "provider" /\ calls[u].rateResult.kind = "value"
    /\ calls[u].rateResult.val # calls[t].rateResult.val
    /\ KeyOf(calls[u]) = KeyOf(calls[t])
    /\ HasRow(KeyOf(calls[u]))
    /\ RowOf(KeyOf(calls[u])).rate = calls[u].rateResult.val

\* C30 as claimed: when no invocation is in flight (every upsert having
\* succeeded and nothing else having written the store), the cache holds for
\* each key the rate of the store's row for that key.
C30_Original ==
  (\A t \in Tasks : calls[t].pc \in {"idle", "done"})
    => \A key \in DOMAIN exchangeRatesCache :
         /\ HasRow(key)
         /\ RowOf(key).rate = exchangeRatesCache[key].rate

====
